---- MODULE Spec2Model ----
(***************************************************************************)
(* Model of the psychopy native extension shims:                           *)
(*   _bits.c              bits_init, bits_setVideoMode                     *)
(*   _win32.c / posix.c   win32_setProcessPriority, win32_setThreadPriority*)
(*   posix.c              win32_getRefresh                                 *)
(*   posix_maxpriority.c  set_self_policy_priority, stop_memory_paging     *)
(*                                                                         *)
(* Every handler is one action.  The state records the last host call:     *)
(* what the host passed, which native calls the handler issued (with the   *)
(* arguments that reached them), what the native call answered, what the   *)
(* handler returned and whether the host error indicator is set.           *)
(*                                                                         *)
(* 32-bit words are pairs of 16-bit halfwords <<hi, lo>>, and memory is a  *)
(* little-endian sequence of halfwords, so that unsigned 32-bit values and *)
(* IEEE-754 doubles are represented exactly.                               *)
(***************************************************************************)
EXTENDS Integers, Sequences, FiniteSets, TLC

VARIABLES build, op, hostArgs, native, nativeRet, osOut, ret, errSet, initLog

vars == <<build, op, hostArgs, native, nativeRet, osOut, ret, errSet, initLog>>

(* Longest recorded sequence of init() calls. *)
MaxInits == 2

H == 2^16

---------------------------------------------------------------------------
(* Host (interpreter) objects.                                             *)

(* A host integer of value hi * 2^16 + lo, 0 <= lo < 2^16, hi any integer. *)
HostInt(hi, lo) == [type |-> "int", hi |-> hi, lo |-> lo]

HostSmallInt(n) == HostInt(n \div H, n % H)

HostStr == [type |-> "str", hi |-> 0, lo |-> 0]

(* Results handed back to the host. *)
PyNULL == [kind |-> "NULL", w |-> <<>>]

PyInt(n) == [kind |-> "int", w |-> <<n>>]

(* A host float, by the four halfwords of its IEEE-754 double, low first. *)
PyFloat(bits) == [kind |-> "float", w |-> bits]

(* A native (vendor or OS) call: the API, its string/handle argument and    *)
(* its integer arguments.                                                  *)
Call(api, str, ints) == [api |-> api, str |-> str, ints |-> ints]

(* What a handler did: native calls issued, the native answer it saw, its  *)
(* result and the host error indicator on return.                          *)
Outcome(calls, nret, r, e) == [native |-> calls, nativeRet |-> nret, ret |-> r, err |-> e]

---------------------------------------------------------------------------
(* bits.h                                                                  *)

E_DISPLAYNOTOPEN == -8

E_INTERNALERROR == -9

E_ALREADYOPEN == -10

E_DISPLAYERROR == -11

E_OUTOFRESOURCES == -12

bits8BITPALETTEMODE == <<0, 1>>

bitsNOGAMMACORRECT == <<0, 16384>>

bitsGAMMACORRECT == <<0, 32768>>

bitsVIDEOENCODEDCOMMS == <<8, 0>>

ModeFlags == {bits8BITPALETTEMODE, bitsNOGAMMACORRECT, bitsGAMMACORRECT, bitsVIDEOENCODEDCOMMS}

RECURSIVE OrAll(_)
(* Bitwise OR of a set of distinct single-bit flags, per halfword. *)
OrAll(S) ==
    IF S = {} THEN <<0, 0>>
    ELSE LET f == CHOOSE x \in S : TRUE
             r == OrAll(S \ {f})
         IN  <<r[1] + f[1], r[2] + f[2]>>

---------------------------------------------------------------------------
(* _bits.c                                                                 *)

(* bits_init: the status test of line 12 and the two returns. *)
bits_init_C4m(s) ==
    Outcome(<<Call("bitsInit", "", <<>>)>>, s,
            IF s <= 0 THEN PyNULL ELSE PyInt(1), FALSE)

bits_init_C6m(s) ==
    Outcome(<<Call("bitsInit", "", <<>>)>>, s,
            IF s < 0 /\ s # E_ALREADYOPEN THEN PyNULL ELSE PyInt(1), FALSE)

bits_init(s) ==
    Outcome(<<Call("bitsInit", "", <<>>)>>, s,
            IF s < 0 THEN PyNULL ELSE PyInt(1), FALSE)

(* PyArg_ParseTuple(args, "i", p): a host integer within the C int range   *)
(* is stored as a 32-bit two's-complement int (two halfwords, low first);  *)
(* anything else fails with the host error indicator set.                  *)
ParseTuple_i(obj) ==
    IF obj.type = "int" /\ obj.hi >= -(2^15) /\ obj.hi <= 2^15 - 1
    THEN [ok |-> TRUE, mem |-> <<obj.lo, obj.hi % H>>]
    ELSE [ok |-> FALSE, mem |-> <<>>]

(* PyObject *videoMode: a pointer-sized local, indeterminate before the    *)
(* parse; the "i" conversion writes its first four bytes only.             *)
videoMode_local(ptr64, garbage, mem) ==
    IF ptr64 THEN <<mem[1], mem[2], garbage[1], garbage[2]>>
    ELSE <<mem[1], mem[2]>>

(* Conversion of the pointer-typed local to the DWORD parameter            *)
(* (unsigned long, 32 bits under the __stdcall ABI of bits.h).             *)
ToDWORD(local) == <<local[2], local[1]>>

bits_setVideoMode_C5m(obj, garbage, s, ptr64) ==
    LET p == ParseTuple_i(obj) IN
    IF ~p.ok THEN Outcome(<<>>, 0, PyNULL, TRUE)
    ELSE LET arg == ToDWORD(videoMode_local(ptr64, garbage, p.mem)) IN
         Outcome(<<Call("bitsSetVideoMode", "", arg)>>, s,
                 IF s < 0 THEN PyNULL ELSE PyInt(1), FALSE)

bits_setVideoMode(obj, garbage, s, ptr64) ==
    LET p == ParseTuple_i(obj) IN
    IF ~p.ok THEN Outcome(<<>>, 0, PyNULL, TRUE)
    ELSE LET arg == ToDWORD(videoMode_local(ptr64, garbage, p.mem)) IN
         Outcome(<<Call("bitsSetVideoMode", "", arg)>>, s,
                 IF s # 0 THEN PyNULL ELSE PyInt(1), FALSE)

---------------------------------------------------------------------------
(* _win32.c / posix.c                                                      *)

(* Result of a C function returning int. *)
CInt(n) == [kind |-> "int", w |-> <<n>>]

(* The shims are registered METH_VARARGS, so the interpreter calls them as *)
(* f(self, args), but they are defined as f(int).  The int parameter then  *)
(* holds whatever occupies the first argument slot: the low 32 bits of     *)
(* `self` (NULL for a Py_InitModule function) or, the call being undefined,*)
(* any other word.  The host's integer is inside the args tuple and is     *)
(* never read.                                                             *)
FirstParamAsInt(slotWord, hostValue) == slotWord

(* (unsigned short) of a 32-bit BOOL. *)
ToUShort(r) == r % H

win32_setProcessPriority(priority_class, r) ==
    Outcome(<<Call("SetPriorityClass", "GetCurrentProcess", <<priority_class>>)>>, r,
            PyInt(ToUShort(r)), FALSE)

win32_setThreadPriority(priority, r) ==
    Outcome(<<Call("SetThreadPriority", "GetCurrentThread", <<priority>>)>>, r,
            PyInt(ToUShort(r)), FALSE)

(* Py_BuildValue("f", DevMode.dmDisplayFrequency): the argument pushed is  *)
(* a 32-bit DWORD, the "f" conversion fetches a 64-bit double from the     *)
(* argument area: its low half is the DWORD, its high half is whatever     *)
(* follows it there.                                                        *)
BuildValue_f(dword, garbage) == PyFloat(<<dword[2], dword[1], garbage[1], garbage[2]>>)

win32_getRefresh(e, freq, garbage) ==
    LET c == Call("EnumDisplaySettings", "NULL,ENUM_CURRENT_SETTINGS", <<>>) IN
    IF e # 0 THEN Outcome(<<c>>, e, BuildValue_f(freq, garbage), FALSE)
    ELSE Outcome(<<c>>, e, PyNULL, FALSE)

RECURSIVE Log2(_)
Log2(n) == IF n <= 1 THEN 0 ELSE 1 + Log2(n \div 2)

(* IEEE-754 double of an integer 0 <= n < 2^21, as halfwords, low first. *)
DoubleOf(n) ==
    IF n = 0 THEN <<0, 0, 0, 0>>
    ELSE LET e  == Log2(n)
             hi == (1023 + e) * 2^20 + (n - 2^e) * 2^(20 - e)
         IN  <<0, 0, hi % H, hi \div H>>

---------------------------------------------------------------------------
(* posix_maxpriority.c                                                     *)

sched_request_C7m(policy, priority) == Call("sched_setscheduler", "", <<0, priority, policy>>)

(* params.sched_priority = priority; sched_setscheduler(0, policy, &params) *)
sched_request(policy, priority) == Call("sched_setscheduler", "", <<0, policy, priority>>)

set_self_policy_priority(policy, priority, s) ==
    Outcome(<<sched_request(policy, priority)>>, s, CInt(s), FALSE)

stop_memory_paging_C8m(haveMCL, s) ==
    IF haveMCL
    THEN Outcome(<<Call("mlockall", "MCL_CURRENT|MCL_FUTURE", <<>>)>>, s, CInt(0), FALSE)
    ELSE Outcome(<<>>, 0, CInt(0), FALSE)

(* #if defined(MCL_CURRENT) && defined(MCL_FUTURE) ... #else return 0 *)
stop_memory_paging(haveMCL, s) ==
    IF haveMCL
    THEN Outcome(<<Call("mlockall", "MCL_CURRENT|MCL_FUTURE", <<>>)>>, s, CInt(s), FALSE)
    ELSE Outcome(<<>>, 0, CInt(0), FALSE)

---------------------------------------------------------------------------
(* Inputs and environment answers.                                         *)

(* Status values bitsInit can answer. *)
InitStatus == {E_OUTOFRESOURCES, E_ALREADYOPEN, E_DISPLAYNOTOPEN, 0, 1}

(* Status values bitsSetVideoMode can answer. *)
ModeStatus == {E_DISPLAYERROR, E_INTERNALERROR, 0, 1}

(* Host objects passed to setVideoMode: every OR of the mode flags, the    *)
(* ends of the C int range, its neighbours, and a non-integer.             *)
ModeObjects ==
    {HostInt(m[1], m[2]) : m \in {OrAll(S) : S \in SUBSET ModeFlags}}
    \cup {HostInt(2^15 - 1, H - 1), HostInt(2^15, 0), HostInt(H - 1, H - 1),
          HostInt(-1, H - 1), HostStr}

(* Indeterminate halfword pairs (uninitialised memory, stale stack words). *)
Garbage == {<<0, 0>>, <<48879, 16462>>}

(* Words found in the first argument slot of a METH_VARARGS call. *)
SlotWords == {0, 9437184}

(* Priority classes / thread priorities the host may ask for. *)
Priorities == {-2, 32, 256}

(* 32-bit BOOL answers of the OS priority calls (0 is failure). *)
BoolResults == {0, 1, -1, 65536}

(* dmDisplayFrequency values, as <<hi, lo>>. *)
Frequencies == {<<0, 0>>, <<0, 60>>, <<0, 75>>}

Policies == {0, 1}

SchedPriorities == {0, 99}

OsStatus == {0, -1}

Builds == [ptr64 : BOOLEAN, haveMCL : BOOLEAN]

---------------------------------------------------------------------------
(* The state machine.                                                      *)

Init ==
    /\ build \in Builds
    /\ op = "none"
    /\ hostArgs = <<>>
    /\ native = <<>>
    /\ nativeRet = 0
    /\ osOut = <<0, 0>>
    /\ ret = [kind |-> "none", w |-> <<>>]
    /\ errSet = FALSE
    /\ initLog = <<>>

(* One host call: the error indicator is clear on entry. *)
Handle(name, args, out, written) ==
    /\ op' = name
    /\ hostArgs' = args
    /\ native' = out.native
    /\ nativeRet' = out.nativeRet
    /\ ret' = out.ret
    /\ errSet' = out.err
    /\ osOut' = written
    /\ UNCHANGED build

BitsInit ==
    /\ Len(initLog) < MaxInits
    /\ \E s \in InitStatus :
         LET out == bits_init(s) IN
         /\ Handle("init", <<>>, out, <<0, 0>>)
         /\ initLog' = Append(initLog, [status |-> s, native |-> out.native, ret |-> out.ret])

BitsSetVideoMode ==
    \E obj \in ModeObjects, g \in Garbage, s \in ModeStatus :
        /\ Handle("setVideoMode", <<obj>>, bits_setVideoMode(obj, g, s, build.ptr64), <<0, 0>>)
        /\ UNCHANGED initLog

SetProcessPriority ==
    \E p \in Priorities, w \in SlotWords, r \in BoolResults :
        /\ Handle("setProcessPriority", <<HostSmallInt(p)>>,
                  win32_setProcessPriority(FirstParamAsInt(w, p), r), <<0, 0>>)
        /\ UNCHANGED initLog

SetThreadPriority ==
    \E p \in Priorities, w \in SlotWords, r \in BoolResults :
        /\ Handle("setThreadPriority", <<HostSmallInt(p)>>,
                  win32_setThreadPriority(FirstParamAsInt(w, p), r), <<0, 0>>)
        /\ UNCHANGED initLog

GetRefresh ==
    \E e \in {0, 1}, f \in Frequencies, g \in Garbage :
        /\ Handle("getRefresh", <<>>, win32_getRefresh(e, f, g),
                  IF e # 0 THEN f ELSE <<0, 0>>)
        /\ UNCHANGED initLog

SetSelfPolicyPriority ==
    \E policy \in Policies, priority \in SchedPriorities, s \in OsStatus :
        /\ Handle("set_self_policy_priority", <<HostSmallInt(policy), HostSmallInt(priority)>>,
                  set_self_policy_priority(policy, priority, s), <<0, 0>>)
        /\ UNCHANGED initLog

StopMemoryPaging ==
    \E s \in OsStatus :
        /\ Handle("stop_memory_paging", <<>>, stop_memory_paging(build.haveMCL, s), <<0, 0>>)
        /\ UNCHANGED initLog

Next ==
    \/ BitsInit
    \/ BitsSetVideoMode
    \/ SetProcessPriority
    \/ SetThreadPriority
    \/ GetRefresh
    \/ SetSelfPolicyPriority
    \/ StopMemoryPaging

Spec == Init /\ [][Next]_vars

---------------------------------------------------------------------------
(* Properties.                                                             *)

(* Value of a small host integer. *)
ValueOf(h) == h.hi * H + h.lo

PriorityOps == {"setProcessPriority", "setThreadPriority"}

(* C1: the value reaching SetPriorityClass / SetThreadPriority is the      *)
(* integer the host caller supplied.                                       *)
C1_PriorityPassedThrough ==
    op \in PriorityOps =>
        /\ Len(native) = 1
        /\ native[1].ints = <<ValueOf(hostArgs[1])>>

(* C2: setProcessPriority / setThreadPriority return exactly the OS result *)
(* r, and in particular 0 only when the OS returned 0.                     *)
C2_ResultUnchanged ==
    op \in PriorityOps => ret = PyInt(nativeRet)

(* C3: for every unsigned 32-bit mode bitmask m, setVideoMode(m) calls     *)
(* bitsSetVideoMode with exactly m.                                        *)
C3_ModePassedUnmodified ==
    (op = "setVideoMode" /\ hostArgs[1].type = "int"
        /\ hostArgs[1].hi >= 0 /\ hostArgs[1].hi < H) =>
        native = <<Call("bitsSetVideoMode", "", <<hostArgs[1].hi, hostArgs[1].lo>>)>>

(* Whenever setVideoMode does reach the vendor call, the DWORD it passes   *)
(* is the host integer modulo 2^32, on both pointer widths.                *)
ModeBitsPreserved ==
    (op = "setVideoMode" /\ native # <<>>) =>
        native[1].ints = <<hostArgs[1].hi % H, hostArgs[1].lo>>

(* C4: init() calls bitsInit("") and returns the failure result exactly    *)
(* when the vendor status is negative, 1 otherwise; never the status.      *)
C4_InitFailsIffNegative ==
    op = "init" =>
        /\ native = <<Call("bitsInit", "", <<>>)>>
        /\ nativeRet < 0 => ret = PyNULL
        /\ nativeRet >= 0 => ret = PyInt(1)

C4_Witness ==
    /\ op = "init" /\ nativeRet = 0 /\ ret = PyInt(1)
    /\ \E i \in 1..Len(initLog) :
         initLog[i].status = E_OUTOFRESOURCES /\ initLog[i].ret = PyNULL

(* An integer the "i" conversion accepts. *)
FitsCInt(obj) == obj.type = "int" /\ obj.hi >= -(2^15) /\ obj.hi < 2^15

(* C5: setVideoMode fails exactly when the vendor call answers nonzero and *)
(* returns 1 exactly when it answers 0; an argument that is not a C int    *)
(* fails without any vendor call.                                          *)
C5_SetVideoModeFailsIffNonzero ==
    op = "setVideoMode" =>
        IF FitsCInt(hostArgs[1])
        THEN /\ Len(native) = 1
             /\ native[1].api = "bitsSetVideoMode"
             /\ nativeRet # 0 => ret = PyNULL
             /\ nativeRet = 0 => ret = PyInt(1)
        ELSE native = <<>> /\ ret = PyNULL

C5_Witness ==
    /\ op = "setVideoMode"
    /\ hostArgs = <<HostInt(bitsGAMMACORRECT[1], bitsGAMMACORRECT[2])>>
    /\ native = <<Call("bitsSetVideoMode", "", bitsGAMMACORRECT)>>
    /\ nativeRet = 0
    /\ ret = PyInt(1)
    /\ initLog # <<>>
    /\ initLog[Len(initLog)].ret = PyInt(1)

(* C6: in any sequence of init() calls each call issues exactly one        *)
(* bitsInit and its outcome depends on that call's status alone, so an     *)
(* "already open" answer is a failure even after a successful init.        *)
C6_EveryInitForwarded ==
    \A i \in 1..Len(initLog) :
        /\ initLog[i].native = <<Call("bitsInit", "", <<>>)>>
        /\ initLog[i].ret = (IF initLog[i].status < 0 THEN PyNULL ELSE PyInt(1))
        /\ initLog[i].status = E_ALREADYOPEN => initLog[i].ret = PyNULL

C6_Witness ==
    /\ Len(initLog) >= 2
    /\ initLog[1].status = 0 /\ initLog[1].ret = PyInt(1)
    /\ initLog[2].status = E_ALREADYOPEN /\ initLog[2].ret = PyNULL

(* C7: set_self_policy_priority issues one sched_setscheduler request for  *)
(* pid 0 with the given policy and priority and returns the OS status.     *)
C7_SchedulerRequestForwarded ==
    op = "set_self_policy_priority" =>
        /\ native = <<Call("sched_setscheduler", "",
                           <<0, ValueOf(hostArgs[1]), ValueOf(hostArgs[2])>>)>>
        /\ ret = CInt(nativeRet)
        /\ nativeRet \in {0, -1}

C7_Witness ==
    /\ op = "set_self_policy_priority"
    /\ hostArgs = <<HostSmallInt(1), HostSmallInt(99)>>
    /\ native = <<Call("sched_setscheduler", "", <<0, 1, 99>>)>>
    /\ nativeRet = -1
    /\ ret = CInt(-1)

(* C8: stop_memory_paging returns 0 with no OS call where memory locking   *)
(* is not available; otherwise it issues one mlockall for current and      *)
(* future pages and returns its status.                                    *)
C8_PagingFallback ==
    op = "stop_memory_paging" =>
        IF build.haveMCL
        THEN /\ native = <<Call("mlockall", "MCL_CURRENT|MCL_FUTURE", <<>>)>>
             /\ ret = CInt(nativeRet)
        ELSE /\ native = <<>>
             /\ ret = CInt(0)

C8_Witness ==
    /\ op = "stop_memory_paging"
    /\ build.haveMCL
    /\ Len(native) = 1
    /\ nativeRet = -1
    /\ ret = CInt(-1)

(* C9: getRefresh fails exactly when the display enumeration fails, and    *)
(* otherwise returns the refresh frequency the OS wrote for that call.     *)
C9_RefreshIsFrequency ==
    op = "getRefresh" =>
        /\ ret = PyNULL <=> nativeRet = 0
        /\ nativeRet # 0 => ret = PyFloat(DoubleOf(osOut[1] * H + osOut[2]))

(* The failure half of C9 on its own. *)
RefreshFailsIffEnumerationFails ==
    op = "getRefresh" => (ret = PyNULL <=> nativeRet = 0)

(* C10: whenever init, setVideoMode or getRefresh returns the null result, *)
(* the host error indicator is set.                                        *)
C10_NullResultHasError ==
    (op \in {"init", "setVideoMode", "getRefresh"} /\ ret = PyNULL) => errSet

====
